---- MODULE Spec2Model ----
(***************************************************************************)
(* LinkedEZ: voice-command parsing, the /api/execute and /api/transcribe   *)
(* handlers of the web application, and the outreach tracker (Google       *)
(* Sheets backed SpreadsheetTracker and CSV backed LocalSpreadsheetTracker).*)
(*                                                                         *)
(* The specifications share the variables below:                           *)
(*   SpecTracker  the tracker classes driven through their public methods  *)
(*   SpecWeb      the Flask handlers of web_app.py                         *)
(*   SpecParse    LinkedInVoiceAssistant.parse_command on bounded texts    *)
(*   SpecVoice    the loop of LinkedInVoiceAssistant.run                   *)
(*   SpecRuns     outreach runs from either entry point                    *)
(*   SpecOverlap  two /api/execute requests handled by two threads         *)
(*   SpecPair     the two tracker classes given the same calls             *)
(* A specification leaves the variables it does not use at their initial   *)
(* values.                                                                 *)
(***************************************************************************)
EXTENDS Integers, Sequences, FiniteSets, TLC

VARIABLES
    tracker,            \* which tracker class has been constructed: "none", "local", "sheet"
    client,             \* SpreadsheetTracker.client is set (authenticated)
    worksheet,          \* SpreadsheetTracker.worksheet is set
    dest,               \* the destination: the CSV file or the spreadsheet's first sheet
    dest0,              \* what the destination was before the tracker was constructed
    now,                \* the wall clock read by datetime.now()
    last,               \* the last call: its name, arguments, return value and write attempts
    appended,           \* while clean: the rows appended by the add calls since construction
    clean,              \* only add calls, all successful, have run since construction
    elevenlabs_client,  \* web_app.elevenlabs_client is not None
    oagi_key,           \* OAGI_API_KEY is set in the environment
    request,            \* the HTTP request being answered
    response,           \* the HTTP response of the last request
    result,             \* the dict returned by LinkedInTasker.execute_linkedin_outreach
    events,             \* what the handler of the last request did, in order
    served,             \* number of HTTP requests answered
    command,            \* the text given to parse_command
    params,             \* the dict returned by parse_command
    state,              \* where LinkedInVoiceAssistant.run is waiting
    heard,              \* what the last listen() returned
    said,               \* what the assistant spoke since the last listen()
    cycles,             \* number of commands the voice loop has listened for
    threads,            \* the /api/execute requests being handled, one per thread
    agents,             \* number of TaskerAgent instances created
    local_side,         \* a LocalSpreadsheetTracker given the calls sheet_side is given
    sheet_side          \* a SpreadsheetTracker given the calls local_side is given

trackerVars == <<tracker, client, worksheet, dest, dest0, now, last, appended, clean>>
webVars == <<elevenlabs_client, oagi_key, request, response, result, events, served>>
parseVars == <<command, params>>
voiceVars == <<state, heard, said, cycles>>
overlapVars == <<threads, agents>>
pairVars == <<local_side, sheet_side>>
vars == <<trackerVars, webVars, parseVars, voiceVars, overlapVars, pairVars>>

(***************************************************************************)
(* Bounds of the model.                                                    *)
(***************************************************************************)
MaxRows == 3        \* rows the destination may hold in SpecTracker, header included
MaxRequests == 1    \* HTTP requests answered in SpecWeb
MaxPieces == 3      \* pieces a command text is put together from in SpecParse
MaxCycles == 2      \* outreach attempts the voice loop starts in SpecVoice
MaxBatch == 2       \* the largest num_people of a request in SpecOverlap

\* the values of the wall clock
Clock == {0, 1}

(***************************************************************************)
(* Python dicts are functions with a finite domain of keys.                *)
(***************************************************************************)
Get(d, key, default) == IF key \in DOMAIN d THEN d[key] ELSE default

Range(s) == {s[i] : i \in DOMAIN s}

\* the element of a singleton set.  A value bound through {e} is computed once,
\* where a LET definition is computed again each time it is used.
Only(S) == CHOOSE x \in S : TRUE

(***************************************************************************)
(* spreadsheet_tracker.py                                                  *)
(***************************************************************************)
headers ==
    << "Timestamp", "Company Name", "Position Applied", "Contact Name",
       "Contact Title", "Connection Status", "Message Sent",
       "Response Status", "Notes" >>

\* datetime.now().strftime("%Y-%m-%d %H:%M:%S") at clock value t
Stamps == << "2025-01-01 09:00:00", "2025-01-01 09:00:01" >>

strftime(t) == Stamps[t + 1]

\* the row_data list built by add_outreach_record (same in both classes)
row_data(record, t) ==
    << Get(record, "timestamp", strftime(t)),
       Get(record, "company", ""),
       Get(record, "position", ""),
       Get(record, "name", ""),
       Get(record, "contact_title", ""),
       Get(record, "status", "Pending"),
       Get(record, "message_sent", "Yes"),
       Get(record, "response_status", "No Response"),
       Get(record, "notes", "") >>

NoDest == [exists |-> FALSE, rows |-> << >>]

BlankRow == [c \in 1..9 |-> ""]

\* worksheet.row_values(r): the cells of row r up to the last non-empty one
row_values(rows, r) ==
    IF r \in 1..Len(rows) /\ \E c \in DOMAIN rows[r] : rows[r][c] # ""
    THEN rows[r]
    ELSE << >>

(***************************************************************************)
(* The destinations a tracker may find when it is constructed, and the     *)
(* records and batches the callers hand to it.                             *)
(***************************************************************************)
\* a record as web_app.py and voice_linkedin_assistant.py build it (no timestamp)
RecCaller ==
    [company |-> "acme", position |-> "dev", name |-> "Contact 1",
     contact_title |-> "Professional", status |-> "Connection Sent",
     message_sent |-> "Yes", response_status |-> "Pending",
     notes |-> "Voice command: hi"]

\* the test record of spreadsheet_tracker.py's __main__: some keys are missing
RecTest ==
    [company |-> "Test Company", position |-> "Software Engineer",
     name |-> "John Doe", contact_title |-> "Senior Engineer",
     status |-> "Connection Sent", notes |-> "Test entry"]

Records == {RecCaller, RecTest}

Batches == UNION {[1..n -> Records] : n \in 0..(MaxRows - 1)}

OldRow == row_data(RecTest, 0)

DestKinds == {"missing", "empty", "used"}

DestOf(kind) ==
    CASE kind = "missing" -> NoDest
      [] kind = "empty"   -> [exists |-> TRUE, rows |-> << >>]
      [] kind = "used"    -> [exists |-> TRUE, rows |-> <<headers, OldRow>>]

Statuses == {"Replied"}
NotesValues == {"", "Call back"}

NoCall == [op |-> "none"]

(***************************************************************************)
(* LocalSpreadsheetTracker                                                 *)
(***************************************************************************)
\* __init__: create the file with the header row if it does not exist
local_init(d) ==
    IF ~d.exists THEN [exists |-> TRUE, rows |-> <<headers>>] ELSE d

\* the file opened with mode 'w': the row replaces what the file holds
csv_truncate(d, row) == [exists |-> TRUE, rows |-> <<row>>]

\* open(self.filename, 'a') followed by writer.writerow(row): the file is created
\* when missing and the row goes after the rows it holds
csv_append(d, row) == [exists |-> TRUE, rows |-> Append(d.rows, row)]

\* add_outreach_record: ok is whether open/writerow complete without raising
local_add_outreach_record(d, record, t, ok) ==
    IF ok
    THEN [dest |-> csv_append(d, row_data(record, t)), ret |-> TRUE]
    ELSE [dest |-> d, ret |-> FALSE]

(***************************************************************************)
(* SpreadsheetTracker                                                      *)
(***************************************************************************)
\* worksheet.insert_row(row): the row goes before the rows the sheet holds
insert_row(d, row) == [exists |-> TRUE, rows |-> <<row>> \o d.rows]

\* worksheet.append_row(row): the row goes after the rows the sheet holds
append_row(d, row) == [exists |-> TRUE, rows |-> Append(d.rows, row)]

\* create_or_open_spreadsheet, once authenticated: open or create the
\* spreadsheet, take its first sheet, add the header row when row 1 is empty
sheet_open(d) ==
    LET opened == IF d.exists THEN d ELSE [exists |-> TRUE, rows |-> << >>]
    IN  IF row_values(opened.rows, 1) = << >>
        THEN append_row(opened, headers)
        ELSE opened

\* add_outreach_record: ok is whether append_row completes without raising
sheet_add_outreach_record(ws, d, record, t, ok) ==
    IF ~ws
    THEN [dest |-> d, ret |-> FALSE]
    ELSE IF ok /\ d.exists
         THEN [dest |-> append_row(d, row_data(record, t)), ret |-> TRUE]
         ELSE [dest |-> d, ret |-> FALSE]

\* worksheet.update_cell(row, col, value); rows between the last row and the
\* addressed one are blank cells of the grid
update_cell(d, row, col, value) ==
    LET padded == [i \in 1..(IF row > Len(d.rows) THEN row ELSE Len(d.rows)) |->
                     IF i <= Len(d.rows) THEN d.rows[i] ELSE BlankRow]
    IN  [d EXCEPT !.rows = [padded EXCEPT ![row] = [@ EXCEPT ![col] = value]]]

\* the two column numbers update_response_status writes
StatusCol == 8
NotesCol == 9

\* an update that writes the notes cell whatever notes is
sheet_update_always_notes(d, row, status, notes, fail) ==
    IF fail = "status" \/ row < 1 \/ ~d.exists
    THEN [dest |-> d, ret |-> FALSE]
    ELSE LET d1 == update_cell(d, row, StatusCol, status)
         IN  IF fail = "notes"
             THEN [dest |-> d1, ret |-> FALSE]
             ELSE [dest |-> update_cell(d1, row, NotesCol, notes), ret |-> TRUE]

\* update_response_status past the worksheet check; fail names the update_cell
\* call that raises: "none", "status" (the first) or "notes" (the second)
sheet_update_response_status(d, row, status, notes, fail) ==
    IF fail = "status" \/ row < 1 \/ ~d.exists
    THEN [dest |-> d, ret |-> FALSE]
    ELSE LET d1 == update_cell(d, row, StatusCol, status)
         IN  IF notes # ""
             THEN IF fail = "notes"
                  THEN [dest |-> d1, ret |-> FALSE]
                  ELSE [dest |-> update_cell(d1, row, NotesCol, notes), ret |-> TRUE]
             ELSE [dest |-> d1, ret |-> TRUE]

(***************************************************************************)
(* add_outreach_record and add_multiple_records of the constructed tracker *)
(***************************************************************************)
add_outreach_record(kind, ws, d, record, t, ok) ==
    IF kind = "local"
    THEN local_add_outreach_record(d, record, t, ok)
    ELSE sheet_add_outreach_record(ws, d, record, t, ok)

\* one iteration of the loop of add_multiple_records, for record i: attempted
\* lists the indices handed to add_outreach_record, failed those it returned
\* False for, count is success_count; fails is the set of indices whose write raises
add_step(kind, ws, records, t, fails, i, acc) ==
    Only({[dest |-> r.dest,
           attempted |-> Append(acc.attempted, i),
           failed |-> IF r.ret THEN acc.failed ELSE acc.failed \cup {i},
           count |-> IF r.ret THEN acc.count + 1 ELSE acc.count] :
          r \in {add_outreach_record(kind, ws, acc.dest, records[i], t,
                                     i \notin fails)}})

\* the loop of add_multiple_records over records lo..hi, in order.  The range
\* is walked in two halves, the second starting from the state the first one
\* left, so that a batch of n records nests log n evaluations and not n.
RECURSIVE add_loop(_, _, _, _, _, _, _, _)
add_loop(kind, ws, records, t, fails, lo, hi, acc) ==
    IF lo > hi
    THEN acc
    ELSE IF lo = hi
    THEN add_step(kind, ws, records, t, fails, lo, acc)
    ELSE Only({add_loop(kind, ws, records, t, fails, ((lo + hi) \div 2) + 1, hi, a) :
               a \in {add_loop(kind, ws, records, t, fails, lo, (lo + hi) \div 2,
                               acc)}})

\* a loop that stops at the first record whose write fails
RECURSIVE add_loop_abort(_, _, _, _, _, _, _, _)
add_loop_abort(kind, ws, records, t, fails, lo, hi, acc) ==
    IF lo > hi
    THEN acc
    ELSE IF lo = hi
    THEN add_step(kind, ws, records, t, fails, lo, acc)
    ELSE Only({IF a.failed # {}
               THEN a
               ELSE add_loop_abort(kind, ws, records, t, fails,
                                   ((lo + hi) \div 2) + 1, hi, a) :
               a \in {add_loop_abort(kind, ws, records, t, fails, lo,
                                     (lo + hi) \div 2, acc)}})

NoneAttempted(d) == [dest |-> d, attempted |-> << >>, failed |-> {}, count |-> 0]

add_multiple_records_abort(kind, ws, d, records, t, fails) ==
    Only({[dest |-> done.dest, attempted |-> done.attempted,
           failed |-> done.failed, count |-> done.count,
           ret |-> (done.count = Len(records))] :
          done \in {add_loop_abort(kind, ws, records, t, fails, 1,
                                   Len(records), NoneAttempted(d))}})

add_multiple_records(kind, ws, d, records, t, fails) ==
    IF kind = "sheet" /\ ~ws
    THEN [dest |-> d, attempted |-> << >>, failed |-> {}, count |-> 0,
          ret |-> FALSE]
    ELSE Only({[dest |-> done.dest, attempted |-> done.attempted,
                failed |-> done.failed, count |-> done.count,
                ret |-> (done.count = Len(records))] :
               done \in {add_loop(kind, ws, records, t, fails, 1,
                                  Len(records), NoneAttempted(d))}})

(***************************************************************************)
(* SpecTracker: the tracker driven through its public methods.  The clock   *)
(* stands still here: the tracker reads it only for the default timestamp. *)
(***************************************************************************)
NoRequest == [kind |-> "none"]
NoResponse == [status |-> 0]
NoResult == [kind |-> "none"]
NoParams == [kind |-> "none"]
NoHeard == [some |-> FALSE, v |-> << >>]

WebIdle ==
    /\ elevenlabs_client = FALSE
    /\ oagi_key = FALSE
    /\ request = NoRequest
    /\ response = NoResponse
    /\ result = NoResult
    /\ events = << >>
    /\ served = 0

ParseIdle ==
    /\ command = << >>
    /\ params = NoParams

VoiceIdle ==
    /\ state = "off"
    /\ heard = NoHeard
    /\ said = << >>
    /\ cycles = 0

OverlapIdle ==
    /\ threads = << >>
    /\ agents = 0

NoSide == [made |-> FALSE]

PairIdle ==
    /\ local_side = NoSide
    /\ sheet_side = NoSide

TrackerIdle ==
    /\ tracker = "none"
    /\ client = FALSE
    /\ worksheet = FALSE
    /\ dest = NoDest
    /\ dest0 = "missing"
    /\ now = 0
    /\ last = NoCall
    /\ appended = << >>
    /\ clean = FALSE

InitTracker ==
    /\ tracker = "none"
    /\ client = FALSE
    /\ worksheet = FALSE
    /\ dest0 \in DestKinds
    /\ dest = DestOf(dest0)
    /\ now = 0
    /\ last = NoCall
    /\ appended = << >>
    /\ clean = FALSE
    /\ WebIdle
    /\ ParseIdle
    /\ VoiceIdle
    /\ OverlapIdle
    /\ PairIdle

\* the tracker can take add and update calls
Ready == tracker = "local" \/ (tracker = "sheet" /\ worksheet)

\* LocalSpreadsheetTracker(filename)
LocalInit ==
    /\ tracker = "none"
    /\ tracker' = "local"
    /\ dest' = local_init(dest)
    /\ last' = [op |-> "LocalSpreadsheetTracker"]
    /\ appended' = << >>
    /\ clean' = TRUE
    /\ UNCHANGED <<client, worksheet, dest0, now, webVars, parseVars, voiceVars, overlapVars, pairVars>>

\* SpreadsheetTracker(spreadsheet_name)
SheetInit ==
    /\ tracker = "none"
    /\ tracker' = "sheet"
    /\ client' = FALSE
    /\ worksheet' = FALSE
    /\ last' = [op |-> "SpreadsheetTracker"]
    /\ UNCHANGED <<dest, dest0, now, appended, clean, webVars, parseVars, voiceVars, overlapVars, pairVars>>

\* authenticate(credentials_file): found is whether the credentials file exists
\* and is accepted
Authenticate(found) ==
    /\ tracker = "sheet"
    /\ ~client
    /\ client' = found
    /\ last' = [op |-> "authenticate", ret |-> found]
    /\ UNCHANGED <<tracker, worksheet, dest, dest0, now, appended, clean,
                   webVars, parseVars, voiceVars, overlapVars, pairVars>>

CreateOrOpenSpreadsheet ==
    /\ tracker = "sheet"
    /\ ~worksheet
    /\ IF ~client
       THEN /\ last' = [op |-> "create_or_open_spreadsheet", ret |-> FALSE]
            /\ UNCHANGED <<worksheet, dest, appended, clean>>
       ELSE /\ dest' = sheet_open(dest)
            /\ worksheet' = TRUE
            /\ last' = [op |-> "create_or_open_spreadsheet", ret |-> TRUE]
            /\ appended' = << >>
            /\ clean' = TRUE
    /\ UNCHANGED <<tracker, client, dest0, now, webVars, parseVars, voiceVars, overlapVars, pairVars>>

AddOutreachRecord(record, ok) ==
    /\ tracker # "none"
    /\ Len(dest.rows) < MaxRows
    /\ \E r \in {add_outreach_record(tracker, worksheet, dest, record, now, ok)} :
           /\ dest' = r.dest
           /\ last' = [op |-> "add_outreach_record", record |-> record,
                       ret |-> r.ret]
           /\ appended' = IF clean /\ r.ret
                          THEN Append(appended, row_data(record, now))
                          ELSE << >>
           /\ clean' = (clean /\ r.ret)
    /\ UNCHANGED <<tracker, client, worksheet, dest0, now, webVars, parseVars, voiceVars, overlapVars, pairVars>>

RECURSIVE Written(_, _, _, _)
\* the rows of records[i..] whose index is not in fails
Written(records, t, fails, i) ==
    IF i > Len(records)
    THEN << >>
    ELSE (IF i \in fails THEN << >> ELSE <<row_data(records[i], t)>>)
         \o Written(records, t, fails, i + 1)

AddMultipleRecords(records, fails) ==
    /\ tracker # "none"
    /\ Len(dest.rows) + Len(records) <= MaxRows
    /\ \E r \in {add_multiple_records(tracker, worksheet, dest, records, now, fails)} :
           /\ dest' = r.dest
           /\ last' = [op |-> "add_multiple_records", records |-> records,
                       attempted |-> r.attempted, failed |-> r.failed,
                       count |-> r.count, ret |-> r.ret]
           /\ appended' = IF clean /\ r.ret
                          THEN appended \o Written(records, now, fails, 1)
                          ELSE << >>
           /\ clean' = (clean /\ r.ret)
    /\ UNCHANGED <<tracker, client, worksheet, dest0, now, webVars, parseVars, voiceVars, overlapVars, pairVars>>

UpdateResponseStatus(row, status, notes, fail) ==
    /\ tracker = "sheet"
    /\ LET r == IF ~worksheet
                THEN [dest |-> dest, ret |-> FALSE]
                ELSE sheet_update_response_status(dest, row, status, notes, fail)
       IN  /\ dest' = r.dest
           /\ last' = [op |-> "update_response_status", row |-> row,
                       status |-> status, notes |-> notes, ret |-> r.ret]
    /\ clean' = FALSE
    /\ appended' = << >>
    /\ UNCHANGED <<tracker, client, worksheet, dest0, now, webVars, parseVars, voiceVars, overlapVars, pairVars>>

\* the environment removes the file or the spreadsheet
RemoveDest ==
    /\ Ready
    /\ dest.exists
    /\ dest' = NoDest
    /\ last' = [op |-> "remove"]
    /\ clean' = FALSE
    /\ appended' = << >>
    /\ UNCHANGED <<tracker, client, worksheet, dest0, now, webVars, parseVars, voiceVars, overlapVars, pairVars>>

NextTracker ==
    \/ LocalInit
    \/ SheetInit
    \/ \E found \in BOOLEAN : Authenticate(found)
    \/ CreateOrOpenSpreadsheet
    \/ \E record \in Records, ok \in BOOLEAN : AddOutreachRecord(record, ok)
    \/ \E records \in Batches :
         \E fails \in SUBSET (1..Len(records)) : AddMultipleRecords(records, fails)
    \/ \E row \in 0..MaxRows, status \in Statuses, notes \in NotesValues,
          fail \in {"none", "status", "notes"} :
         UpdateResponseStatus(row, status, notes, fail)
    \/ RemoveDest

SpecTracker == InitTracker /\ [][NextTracker]_vars

(***************************************************************************)
(* Properties of the tracker (SpecTracker).                                *)
(***************************************************************************)
\* cell (i, c) of the destination seen as a grid: cells past the last row are empty
Cell(rows, i, c) == IF i \in 1..Len(rows) THEN rows[i][c] ELSE ""

\* every cell outside `cells` is the same in both grids
SameOutside(rowsA, rowsB, cells) ==
    /\ Len(rowsA) <= MaxRows
    /\ Len(rowsB) <= MaxRows
    /\ \A i \in 1..MaxRows, c \in 1..9 :
         <<i, c>> \notin cells => Cell(rowsA, i, c) = Cell(rowsB, i, c)

\* Python's bool is an int: True is 1 and False is 0
AsInt(b) == IF b THEN 1 ELSE 0

\* row 1 is the header and every row has the 9 columns
HeaderOK(d) ==
    /\ d.exists
    /\ Len(d.rows) >= 1
    /\ d.rows[1] = headers
    /\ \A i \in 1..Len(d.rows) : Len(d.rows[i]) = 9

\* C3: from a newly created tracker, after N records appended by add calls that
\* all succeeded, the destination holds N+1 rows: the header, then the N records
\* in the order they were appended, each of 9 columns.
C3_AppendOrder ==
    (Ready /\ clean /\ dest0 = "missing") =>
        /\ dest.exists
        /\ Len(dest.rows) = Len(appended) + 1
        /\ dest.rows = <<headers>> \o appended
        /\ \A i \in 1..Len(dest.rows) : Len(dest.rows[i]) = Len(headers)

C3_Witness ==
    /\ Ready /\ clean /\ dest0 = "missing"
    /\ last.op = "add_multiple_records"
    /\ Len(appended) = 2
    /\ appended[1] # appended[2]
    /\ dest.rows[3] = appended[2]

\* C4 as claimed: a successful update_response_status(R, status, notes) sets the
\* "Response Status" and the "Notes" cell of row R to status and notes, also for
\* the default notes "", and changes no other cell.
C4_Original ==
    [][(last'.op = "update_response_status" /\ last'.ret) =>
          /\ Cell(dest'.rows, last'.row, StatusCol) = last'.status
          /\ Cell(dest'.rows, last'.row, NotesCol) = last'.notes
          /\ SameOutside(dest.rows, dest'.rows,
                         {<<last'.row, StatusCol>>, <<last'.row, NotesCol>>})]_vars

\* C4 amended: a successful update_response_status(R, status, notes) sets the
\* "Response Status" cell of row R to status; it sets the "Notes" cell of row R
\* to notes when notes is not empty and leaves it as it was when notes is empty;
\* it changes no other cell.
C4_UpdateFrame ==
    [][(last'.op = "update_response_status" /\ last'.ret) =>
          /\ Cell(dest'.rows, last'.row, StatusCol) = last'.status
          /\ Cell(dest'.rows, last'.row, NotesCol) =
                IF last'.notes # "" THEN last'.notes
                ELSE Cell(dest.rows, last'.row, NotesCol)
          /\ SameOutside(dest.rows, dest'.rows,
                         {<<last'.row, StatusCol>>, <<last'.row, NotesCol>>})]_vars

C4_Witness ==
    /\ last.op = "update_response_status"
    /\ last.ret
    /\ last.notes = ""
    /\ last.row = 2
    /\ Cell(dest.rows, 2, StatusCol) = "Replied"
    /\ Cell(dest.rows, 2, NotesCol) = "Test entry"
    /\ Cell(dest.rows, 2, 4) = "John Doe"

\* C8 as claimed: in a batch of N records some of whose writes fail, every record
\* is attempted, the rows written are in the destination, and the value returned
\* is the number of rows that succeeded.
C8_Original ==
    [][(last'.op = "add_multiple_records" /\ last'.failed # {}) =>
          /\ last'.attempted = [i \in 1..Len(last'.records) |-> i]
          /\ dest'.rows = dest.rows \o Written(last'.records, now, last'.failed, 1)
          /\ last'.count = Len(last'.records) - Cardinality(last'.failed)
          /\ AsInt(last'.ret) = last'.count]_vars

\* C8 amended: a batch of N records given to a tracker that is ready is attempted
\* record by record to the end whatever fails, the rows written are in the
\* destination in batch order, and the value returned is a boolean: True exactly
\* when all N succeeded (the count of successes is only printed).  A spreadsheet
\* tracker whose worksheet is not open attempts nothing and returns False.
C8_PartialFailure ==
    [][last'.op = "add_multiple_records" =>
          IF Ready
          THEN /\ last'.attempted = [i \in 1..Len(last'.records) |-> i]
               /\ dest'.rows = dest.rows \o Written(last'.records, now, last'.failed, 1)
               /\ last'.count = Len(last'.records) - Cardinality(last'.failed)
               /\ last'.ret = (last'.count = Len(last'.records))
          ELSE /\ last'.attempted = << >>
               /\ dest' = dest
               /\ last'.ret = FALSE]_vars

C8_Witness ==
    /\ Ready
    /\ last.op = "add_multiple_records"
    /\ Len(last.records) = 2
    /\ last.failed = {1}
    /\ last.attempted = <<1, 2>>
    /\ last.count = 1
    /\ last.ret = FALSE
    /\ dest.rows[Len(dest.rows)] = row_data(last.records[2], now)

\* C9 as claimed: no add_outreach_record, add_multiple_records or
\* update_response_status call, whatever its row number, takes the destination
\* out of the states where row 1 is the fixed header and every row has the 9
\* columns.
C9_HeaderInvariant ==
    [][(/\ Ready
        /\ HeaderOK(dest)
        /\ last'.op \in {"add_outreach_record", "add_multiple_records",
                         "update_response_status"}) => HeaderOK(dest')]_vars

\* C10 as claimed: a tracker constructed on a destination without header row
\* (missing, or present with no rows) leaves the destination existing, and
\* whenever the destination exists afterwards (also when it was removed and a
\* record was appended) its first row is the header.
C10_AutoCreate ==
    (Ready /\ dest0 \in {"missing", "empty"}) =>
        /\ last.op \in {"LocalSpreadsheetTracker", "create_or_open_spreadsheet"}
              => dest.exists
        /\ dest.exists => (Len(dest.rows) >= 1 /\ dest.rows[1] = headers)

(***************************************************************************)
(* web_app.py                                                              *)
(***************************************************************************)
\* JSON values of a request body: t is the JSON type, v the number carried
\* (true is 1 and false is 0, as Python's bool)
JInt(n) == [t |-> "int", v |-> n]
JBool(b) == [t |-> "bool", v |-> IF b THEN 1 ELSE 0]
JStr5 == [t |-> "str", v |-> 5]         \* the string "5"
JFloat5 == [t |-> "float", v |-> 5]     \* the number 5.5

\* the bounds of the num_people check and the default of data.get('num_people', 10)
MinPeople == 1
MaxPeople == 50
DefaultPeople == 10

\* isinstance(x, int): bool is a subclass of int
isinstance_int(x) == x.t \in {"int", "bool"}

\* the num_people check of execute
valid_num_people_strict(x) ==
    isinstance_int(x) /\ x.v > MinPeople /\ x.v < MaxPeople

valid_num_people(x) ==
    ~(~isinstance_int(x) \/ x.v < MinPeople \/ x.v > MaxPeople)

\* the records execute_linkedin_outreach builds for the tracker
outreach_records(company, position, n, cmd) ==
    [i \in 1..n |->
        [company |-> company, position |-> position,
         name |-> "Contact " \o ToString(i),
         contact_title |-> "Professional", status |-> "Connection Sent",
         message_sent |-> "Yes", response_status |-> "Pending",
         notes |-> "Voice command: " \o cmd]]

\* what the agent may do in one run.  Without OAGI_API_KEY the agent cannot
\* reach its service: constructing it or executing it raises.
AgentOutcomes(key) ==
    IF key
    THEN {"setup_raises", "execute_raises", "export_raises",
          "returns_true", "returns_false"}
    ELSE {"setup_raises", "execute_raises"}

ErrorText(outcome) ==
    CASE outcome = "setup_raises"   -> "OAGI API key must be provided"
      [] outcome = "execute_raises" -> "agent request failed"
      [] outcome = "export_raises"  -> "cannot write execution history"

\* a run that calls the agent a second time when the first call raises
RunEventsRetry(outcome) ==
    CASE outcome = "setup_raises"   -> <<"setup">>
      [] outcome = "execute_raises" ->
            <<"setup", "set_task", "agent_execute", "agent_execute">>
      [] outcome = "export_raises"  -> <<"setup", "set_task", "agent_execute", "export">>
      [] OTHER -> <<"setup", "set_task", "agent_execute", "export", "tracker_write">>

\* the events of a run up to the point where it raises or returns
RunEvents(outcome) ==
    CASE outcome = "setup_raises"   -> <<"setup">>
      [] outcome = "execute_raises" -> <<"setup", "set_task", "agent_execute">>
      [] outcome = "export_raises"  -> <<"setup", "set_task", "agent_execute", "export">>
      [] OTHER -> <<"setup", "set_task", "agent_execute", "export", "tracker_write">>

\* the end of a run whose agent returned: the records go to the module's tracker
\* and the result dict is returned
tracked_run(recs, outcome, d, t, fails) ==
    Only({[result |-> [kind |-> "dict", success |-> (outcome = "returns_true"),
                       has_error |-> FALSE, error |-> "", total |-> Len(recs)],
           dest |-> w.dest, events |-> RunEvents(outcome),
           batch |-> [op |-> "add_multiple_records", records |-> recs,
                      attempted |-> w.attempted, failed |-> w.failed,
                      count |-> w.count, ret |-> w.ret]] :
          w \in {add_multiple_records("local", FALSE, d, recs, t, fails)}})

\* the body of the try block left without its except clause
dispatch_unguarded(company, position, n, cmd, outcome, d, t, fails) ==
    IF outcome \in {"setup_raises", "execute_raises", "export_raises"}
    THEN [result |-> [kind |-> "raised", error |-> ErrorText(outcome)],
          dest |-> d, events |-> RunEvents(outcome), batch |-> NoCall]
    ELSE tracked_run(outreach_records(company, position, n, cmd),
                     outcome, d, t, fails)

\* a dispatcher that passes the records to the tracker before it awaits the agent
dispatch_track_first(company, position, n, cmd, outcome, d, t, fails) ==
    IF outcome = "setup_raises"
    THEN [result |-> [kind |-> "dict", success |-> FALSE, has_error |-> TRUE,
                      error |-> ErrorText(outcome), total |-> 0],
          dest |-> d, events |-> RunEvents(outcome), batch |-> NoCall]
    ELSE IF outcome \in {"execute_raises", "export_raises"}
    THEN [result |-> [kind |-> "dict", success |-> FALSE, has_error |-> TRUE,
                      error |-> ErrorText(outcome), total |-> 0],
          dest |-> add_multiple_records("local", FALSE, d,
                       outreach_records(company, position, n, cmd), t, fails).dest,
          events |-> RunEvents(outcome), batch |-> NoCall]
    ELSE tracked_run(outreach_records(company, position, n, cmd),
                     outcome, d, t, fails)

\* LinkedInTasker.execute_linkedin_outreach: n is range(num_people)'s length
execute_linkedin_outreach(company, position, n, cmd, outcome, d, t, fails) ==
    IF outcome \in {"setup_raises", "execute_raises", "export_raises"}
    THEN [result |-> [kind |-> "dict", success |-> FALSE, has_error |-> TRUE,
                      error |-> ErrorText(outcome), total |-> 0],
          dest |-> d, events |-> RunEvents(outcome), batch |-> NoCall]
    ELSE tracked_run(outreach_records(company, position, n, cmd),
                     outcome, d, t, fails)

\* jsonify(...), status of the three answers of a handler
Ok200 == [status |-> 200, success |-> TRUE, error |-> ""]
Bad400(msg) == [status |-> 400, success |-> FALSE, error |-> msg]
Err500(msg) == [status |-> 500, success |-> FALSE, error |-> msg]

\* a handler that creates its event loop before it validates the body
NotRun_loop_first(d) ==
    [result |-> NoResult, dest |-> d, events |-> <<"new_event_loop">>, batch |-> NoCall]

\* what a request that never reaches the dispatcher leaves behind
NotRun(d) == [result |-> NoResult, dest |-> d, events |-> << >>, batch |-> NoCall]

\* the end of execute(), once the dispatcher has run in its own event loop: an
\* exception out of it is answered by the handler's except clause
execute_answer(run) ==
    IF run.result.kind = "raised"
    THEN [response |-> Err500(run.result.error),
          result |-> run.result, dest |-> run.dest,
          events |-> <<"new_event_loop">> \o run.events, batch |-> run.batch]
    ELSE [response |->
              IF run.result.success THEN Ok200
              ELSE Err500(IF run.result.has_error THEN run.result.error
                          ELSE "Unknown error occurred"),
          result |-> run.result, dest |-> run.dest,
          events |-> <<"new_event_loop">> \o run.events \o <<"loop_close">>,
          batch |-> run.batch]

\* execute(): body is the request body as request.get_json() finds it
execute(body, outcome, d, t, fails) ==
    IF body.kind \in {"absent", "malformed"}
    THEN \* request.get_json() raises, caught by the handler's except
         [response |-> Err500("get_json failed")] @@ NotRun(d)
    ELSE IF body.kind # "object"
    THEN \* data is None or a list: data.get raises AttributeError
         [response |-> Err500("object has no attribute 'get'")] @@ NotRun(d)
    ELSE LET data == body.data
             cmd == Get(data, "command", "")
             company == Get(data, "company", "")
             position == Get(data, "position", "")
             num_people == Get(data, "num_people", JInt(DefaultPeople))
         IN  IF company = "" \/ position = ""
             THEN [response |-> Bad400("Company and position are required")]
                  @@ NotRun(d)
             ELSE IF ~valid_num_people(num_people)
             THEN [response |-> Bad400("Number of people must be between 1 and 50")]
                  @@ NotRun(d)
             ELSE Only({execute_answer(run) :
                        run \in {execute_linkedin_outreach(company, position,
                                    num_people.v, cmd, outcome, d, t, fails)}})

\* transcribe_audio with the configuration check after the file checks
transcribe_audio_files_first(configured, audio, stt) ==
    IF audio = "absent" THEN Bad400("No audio file provided")
    ELSE IF audio = "unnamed" THEN Bad400("No file selected")
    ELSE IF ~configured THEN Err500("ElevenLabs API key not configured")
    ELSE IF stt = "raises" THEN Err500("speech_to_text failed")
    ELSE Ok200

\* transcribe_audio(): audio is what request.files holds under 'audio', stt is
\* whether speech_to_text.convert returns or raises
transcribe_audio(configured, audio, stt) ==
    IF ~configured THEN Err500("ElevenLabs API key not configured")
    ELSE IF audio = "absent" THEN Bad400("No audio file provided")
    ELSE IF audio = "unnamed" THEN Bad400("No file selected")
    ELSE IF stt = "raises" THEN Err500("speech_to_text failed")
    ELSE Ok200

(***************************************************************************)
(* SpecWeb: the Flask application.  The module-level tracker is a          *)
(* LocalSpreadsheetTracker constructed at import; each request is answered *)
(* by one handler run to its end.  The clock value the handlers read is    *)
(* drawn at Init.                                                          *)
(***************************************************************************)
Absent == "<absent>"

EmptyDict == [k \in {} |-> ""]

Field(key, value) == IF value = Absent THEN EmptyDict ELSE (key :> value)

AbsentNum == [t |-> "absent", v |-> 0]

NumValues ==
    {AbsentNum, JStr5, JFloat5, JBool(TRUE)}
        \cup {JInt(n) : n \in {MinPeople - 1, MinPeople, MaxPeople, MaxPeople + 1}}

Companies == {Absent, "", "acme"}
Positions == {"", "dev"}

\* every body carries the command "hi", but for one that carries nothing else
JsonObjects ==
    {Field("command", "hi") @@ Field("company", c) @@ Field("position", p)
        @@ (IF n = AbsentNum THEN EmptyDict ELSE ("num_people" :> n)) :
        c \in Companies, p \in Positions, n \in NumValues}
        \cup {[company |-> "acme", position |-> "dev"]}

ExecuteBodies ==
    {[kind |-> "absent"], [kind |-> "malformed"], [kind |-> "null"]}
        \cup {[kind |-> "object", data |-> o] : o \in JsonObjects}

\* the writes of a batch that may fail: none, or the first
FailSets == {{}, {1}}

AudioParts == {"absent", "unnamed", "file"}

InitWeb ==
    /\ tracker = "local"
    /\ client = FALSE
    /\ worksheet = FALSE
    /\ dest0 \in DestKinds
    /\ dest = local_init(DestOf(dest0))
    /\ now \in Clock
    /\ last = [op |-> "LocalSpreadsheetTracker"]
    /\ appended = << >>
    /\ clean = TRUE
    /\ elevenlabs_client \in BOOLEAN
    /\ oagi_key \in BOOLEAN
    /\ request = NoRequest
    /\ response = NoResponse
    /\ result = NoResult
    /\ events = << >>
    /\ served = 0
    /\ ParseIdle
    /\ VoiceIdle
    /\ OverlapIdle
    /\ PairIdle

\* POST /api/execute
Execute(body, outcome, fails) ==
    /\ served < MaxRequests
    /\ outcome \in AgentOutcomes(oagi_key)
    /\ \E r \in {execute(body, outcome, dest, now, fails)} :
           /\ request' = [kind |-> "execute", body |-> body]
           /\ response' = r.response
           /\ result' = r.result
           /\ events' = r.events
           /\ dest' = r.dest
           /\ last' = IF r.batch = NoCall THEN last ELSE r.batch
           /\ clean' = (clean /\ (r.batch = NoCall \/ r.batch.ret))
           /\ appended' = IF clean' THEN appended \o SubSeq(r.dest.rows,
                                             Len(dest.rows) + 1, Len(r.dest.rows))
                          ELSE << >>
    /\ served' = served + 1
    /\ UNCHANGED <<tracker, client, worksheet, dest0, now, elevenlabs_client,
                   oagi_key, parseVars, voiceVars, overlapVars, pairVars>>

\* POST /api/transcribe
Transcribe(audio, stt) ==
    /\ served < MaxRequests
    /\ request' = [kind |-> "transcribe", audio |-> audio]
    /\ response' = transcribe_audio(elevenlabs_client, audio, stt)
    /\ result' = NoResult
    /\ events' = << >>
    /\ served' = served + 1
    /\ UNCHANGED <<trackerVars, elevenlabs_client, oagi_key, parseVars, voiceVars, overlapVars, pairVars>>

\* GET /api/status
Status ==
    /\ served < MaxRequests
    /\ request' = [kind |-> "status"]
    /\ response' = [status |-> 200, api_key_configured |-> oagi_key,
                    elevenlabs_configured |-> elevenlabs_client]
    /\ result' = NoResult
    /\ events' = << >>
    /\ served' = served + 1
    /\ UNCHANGED <<trackerVars, elevenlabs_client, oagi_key, parseVars, voiceVars, overlapVars, pairVars>>

NextWeb ==
    \/ \E body \in ExecuteBodies, fails \in FailSets :
         \E outcome \in AgentOutcomes(oagi_key) : Execute(body, outcome, fails)
    \/ \E audio \in AudioParts, stt \in {"text", "raises"} : Transcribe(audio, stt)
    \/ Status

SpecWeb == InitWeb /\ [][NextWeb]_vars

(***************************************************************************)
(* Properties of the Flask application, checked under SpecWeb.             *)
(***************************************************************************)
\* the fields of the last /api/execute body as the handler reads them
Sent(key) == Get(request.body.data, key, Absent)
SentNum == Get(request.body.data, "num_people", AbsentNum)
ExecuteObject == request.kind = "execute" /\ request.body.kind = "object"
Dispatched == "setup" \in Range(events)

\* C2: a request with non-empty company and position and an integer num_people
\* in 1..50 is never answered with 400 and reaches the dispatcher; a request
\* with num_people 0 or 51 is answered with 400
C2_CountBounds ==
    ExecuteObject =>
        /\ (/\ Sent("company") \notin {Absent, ""}
            /\ Sent("position") \notin {Absent, ""}
            /\ SentNum.t = "int"
            /\ SentNum.v \in 1..50)
               => (response.status # 400 /\ Dispatched)
        /\ (SentNum.t = "int" /\ SentNum.v \in {0, 51})
               => (response.status = 400 /\ ~Dispatched)

C2_Witness ==
    /\ ExecuteObject
    /\ Sent("company") = "acme"
    /\ Sent("position") = "dev"
    /\ SentNum = JInt(50)
    /\ response.status = 200
    /\ Dispatched

\* C5: when OAGI_API_KEY is not configured, a dispatched run ends with a
\* returned dict whose success is False and which carries the error text, and
\* the request is answered with that error as a failure body
C5_NoCredentials ==
    (request.kind = "execute" /\ ~oagi_key /\ Dispatched) =>
        /\ result.kind = "dict"
        /\ result.success = FALSE
        /\ result.has_error
        /\ result.error # ""
        /\ response.status = 500
        /\ response.success = FALSE
        /\ response.error = result.error

C5_Witness ==
    /\ request.kind = "execute"
    /\ ~oagi_key
    /\ Dispatched
    /\ result.kind = "dict"
    /\ ~result.success
    /\ response.status = 500

NoAudio == request.kind = "transcribe" /\ request.audio = "absent"

\* C6 as stated: a transcription request without an audio file is answered
\* with success false and status 400 whatever the configuration
C6_Original ==
    NoAudio => (response.success = FALSE /\ response.status = 400)

\* C6: a transcription request without an audio file is answered with success
\* false; the status is 400 when the speech-to-text client is configured and
\* 500 when it is not
C6_NoAudio ==
    NoAudio =>
        /\ response.success = FALSE
        /\ response.status = IF elevenlabs_client THEN 400 ELSE 500

C6_Witness ==
    /\ NoAudio
    /\ ~elevenlabs_client
    /\ response.success = FALSE
    /\ response.status = 500

\* a body that does not carry a usable company, position and count
FailsValidation(body) ==
    \/ body.kind # "object"
    \/ Get(body.data, "company", "") = ""
    \/ Get(body.data, "position", "") = ""
    \/ LET n == Get(body.data, "num_people", JInt(DefaultPeople))
       IN  n.t # "int" \/ n.v < 1 \/ n.v > 50

\* C7: a request that fails validation is answered with 400; one that passes
\* is answered with 200 and success true when the dispatcher's result has
\* success true, and with 500 and success false otherwise
C7_StatusMapping ==
    request.kind = "execute" =>
        IF FailsValidation(request.body)
        THEN response.status = 400
        ELSE IF result.kind = "dict" /\ result.success
             THEN response.status = 200 /\ response.success = TRUE
             ELSE response.status = 500 /\ response.success = FALSE

(***************************************************************************)
(* voice_linkedin_assistant.py: parse_command.  A text is a sequence of    *)
(* one-character strings.  The regular expressions are kept as data and    *)
(* matched the way re.search matches them: leftmost start first, and at    *)
(* one start the alternatives in the order a backtracking matcher tries    *)
(* them (greedy repetitions longest first, lazy ones shortest first,       *)
(* branches of an alternation left to right).                              *)
(***************************************************************************)
UpperCase ==
    <<"A", "B", "C", "D", "E", "F", "G", "H", "I", "J", "K", "L", "M",
      "N", "O", "P", "Q", "R", "S", "T", "U", "V", "W", "X", "Y", "Z">>
LowerCase ==
    <<"a", "b", "c", "d", "e", "f", "g", "h", "i", "j", "k", "l", "m",
      "n", "o", "p", "q", "r", "s", "t", "u", "v", "w", "x", "y", "z">>
DigitChars == <<"0", "1", "2", "3", "4", "5", "6", "7", "8", "9">>

Digits == Range(DigitChars)
Letters == Range(UpperCase) \cup Range(LowerCase)
Whitespace == {" ", "\t", "\n"}

\* str.lower()
lower(s) ==
    [i \in DOMAIN s |->
        IF s[i] \in Range(UpperCase)
        THEN LowerCase[CHOOSE k \in DOMAIN UpperCase : UpperCase[k] = s[i]]
        ELSE s[i]]

\* str.strip()
strip(s) ==
    LET kept == {i \in DOMAIN s : s[i] \notin Whitespace}
    IN  IF kept = {}
        THEN << >>
        ELSE SubSeq(s, CHOOSE i \in kept : \A k \in kept : i <= k,
                       CHOOSE i \in kept : \A k \in kept : i >= k)

\* int() of a string of decimal digits
RECURSIVE int(_)
int(ds) ==
    IF ds = << >>
    THEN 0
    ELSE 10 * int(SubSeq(ds, 1, Len(ds) - 1))
            + ((CHOOSE k \in DOMAIN DigitChars : DigitChars[k] = ds[Len(ds)]) - 1)

\* the character classes \d, \s and [A-Za-z0-9\s]
InClass(c, cls) ==
    CASE cls = "d" -> c \in Digits
      [] cls = "s" -> c \in Whitespace
      [] cls = "w" -> c \in Letters \cup Digits \cup Whitespace

\* the elements of a pattern: a literal, a repetition cls+ (greedy) outside a
\* group, the group (cls+) or (cls+?), and a non-capturing alternation
Lit(w) == [t |-> "lit", w |-> w, cls |-> "", greedy |-> TRUE, alts |-> << >>]
Plus(cls) == [t |-> "plus", w |-> << >>, cls |-> cls, greedy |-> TRUE, alts |-> << >>]
Group(cls, greedy) ==
    [t |-> "group", w |-> << >>, cls |-> cls, greedy |-> greedy, alts |-> << >>]
Alt(alts) == [t |-> "alt", w |-> << >>, cls |-> "", greedy |-> TRUE, alts |-> alts]

LitAt(s, i, w) ==
    /\ i + Len(w) - 1 <= Len(s)
    /\ \A k \in 1..Len(w) : s[i + k - 1] = w[k]

\* the length of the longest run of characters of cls that starts at i
Run(s, i, cls) ==
    CHOOSE n \in 0..(Len(s) + 1 - i) :
        /\ \A k \in 0..(n - 1) : InClass(s[i + k], cls)
        /\ i + n > Len(s) \/ ~InClass(s[i + n], cls)

RECURSIVE Flatten(_)
Flatten(seqs) == IF seqs = << >> THEN << >> ELSE Head(seqs) \o Flatten(Tail(seqs))

\* the matches of pat that start at i, in the order the matcher finds them:
\* each gives the position after the match and the text of group 1
RECURSIVE match(_, _, _, _)
match(pat, s, i, grp) ==
    IF pat = << >>
    THEN <<[end |-> i, group |-> grp]>>
    ELSE LET e == Head(pat)
             rest == Tail(pat)
         IN  CASE e.t = "lit" ->
                    IF LitAt(s, i, e.w) THEN match(rest, s, i + Len(e.w), grp)
                    ELSE << >>
               [] e.t \in {"plus", "group"} ->
                    Only({Flatten([k \in 1..r |->
                              Only({match(rest, s, i + n,
                                          IF e.t = "group"
                                          THEN SubSeq(s, i, i + n - 1) ELSE grp) :
                                    n \in {IF e.greedy THEN r + 1 - k ELSE k}})]) :
                          r \in {Run(s, i, e.cls)}})
               [] e.t = "alt" ->
                    Flatten([a \in 1..Len(e.alts) |->
                                match(e.alts[a] \o rest, s, i, grp)])

NoMatch == [found |-> FALSE, group |-> << >>]

\* re.search(pattern, s): the first match at the leftmost start that has one
re_search(pat, s) ==
    LET starts == {i \in 1..(Len(s) + 1) : match(pat, s, i, << >>) # << >>}
    IN  IF starts = {}
        THEN NoMatch
        ELSE [found |-> TRUE,
              group |-> Head(match(pat, s,
                                   CHOOSE i \in starts : \A k \in starts : i <= k,
                                   << >>)).group]

\* for pattern in patterns: match = re.search(pattern, s); if match: ... break
RECURSIVE first_match(_, _)
first_match(patterns, s) ==
    IF patterns = << >>
    THEN NoMatch
    ELSE Only({IF m.found THEN m ELSE first_match(Tail(patterns), s) :
               m \in {re_search(Head(patterns), s)}})

w_people == <<"p", "e", "o", "p", "l", "e">>
w_reach == <<"r", "e", "a", "c", "h", " ", "o", "u", "t", " ", "t", "o", " ">>
w_contact == <<"c", "o", "n", "t", "a", "c", "t", " ">>
w_from == <<"f", "r", "o", "m">>
w_at == <<"a", "t">>
w_company == <<"c", "o", "m", "p", "a", "n", "y">>
w_about == <<"a", "b", "o", "u", "t">>
w_regarding == <<"r", "e", "g", "a", "r", "d", "i", "n", "g">>
w_for == <<"f", "o", "r">>
w_the == <<"t", "h", "e">>
w_a == <<"a">>
w_position == <<"p", "o", "s", "i", "t", "i", "o", "n">>
w_role == <<"r", "o", "l", "e">>

\* the count patterns with "N people" tried last
number_patterns_reordered ==
    << <<Lit(w_reach), Group("d", TRUE)>>,
       <<Lit(w_contact), Group("d", TRUE)>>,
       <<Group("d", TRUE), Plus("s"), Lit(w_people)>> >>

\* (\d+)\s+people, reach out to (\d+), contact (\d+)
number_patterns ==
    << <<Group("d", TRUE), Plus("s"), Lit(w_people)>>,
       <<Lit(w_reach), Group("d", TRUE)>>,
       <<Lit(w_contact), Group("d", TRUE)>> >>

\* (?:\s+about|\s+regarding|\s+for)
company_end ==
    Alt(<< <<Plus("s"), Lit(w_about)>>,
           <<Plus("s"), Lit(w_regarding)>>,
           <<Plus("s"), Lit(w_for)>> >>)

\* from|at|company \s+([A-Za-z0-9\s]+?)(?:\s+about|\s+regarding|\s+for)
company_patterns ==
    << <<Lit(w_from), Plus("s"), Group("w", FALSE), company_end>>,
       <<Lit(w_at), Plus("s"), Group("w", FALSE), company_end>>,
       <<Lit(w_company), Plus("s"), Group("w", FALSE), company_end>> >>

\* (?:for|regarding|about)
position_start == Alt(<< <<Lit(w_for)>>, <<Lit(w_regarding)>>, <<Lit(w_about)>> >>)

\* (?:for|regarding|about)\s+(?:the\s+)?([A-Za-z0-9\s]+?)\s+position and
\* (?:for|regarding|about)\s+(?:a\s+)?([A-Za-z0-9\s]+?)\s+role
position_patterns ==
    << <<position_start, Plus("s"), Alt(<< <<Lit(w_the), Plus("s")>>, << >> >>),
         Group("w", FALSE), Plus("s"), Lit(w_position)>>,
       <<position_start, Plus("s"), Alt(<< <<Lit(w_a), Plus("s")>>, << >> >>),
         Group("w", FALSE), Plus("s"), Lit(w_role)>> >>

\* the default of num_people
DefaultCount == 10

None == [some |-> FALSE, v |-> << >>]
Some(x) == [some |-> TRUE, v |-> x]

\* parse_command(command)
parse_command(cmd) ==
    LET command_lower == lower(cmd)
    IN
    Only({[company |-> IF c.found THEN Some(strip(c.group)) ELSE None,
           position |-> IF p.found THEN Some(strip(p.group)) ELSE None,
           num_people |-> IF n.found THEN int(n.group) ELSE DefaultCount,
           raw_command |-> cmd] :
          n \in {first_match(number_patterns, command_lower)},
          c \in {first_match(company_patterns, command_lower)},
          p \in {first_match(position_patterns, command_lower)}})

(***************************************************************************)
(* SpecParse: parse_command applied to one command text.  The texts are    *)
(* the concatenations of at most MaxPieces pieces.                         *)
(***************************************************************************)
p_7 == <<"7">>
p_12 == <<"1", "2">>
p_space == <<" ">>
p_people == <<" ", "p", "e", "o", "p", "l", "e">>
p_PEOPLE == <<"P", "E", "O", "P", "L", "E">>
p_comma == <<",">>
p_contact == <<"c", "o", "n", "t", "a", "c", "t", " ", "5", " ">>
p_reach == <<"R", "e", "a", "c", "h", " ", "o", "u", "t", " ", "t", "o", " ", "3">>
p_from == <<"f", "r", "o", "m", " ", "a", "c", "m", "e">>
p_position ==
    <<" ", "f", "o", "r", " ", "t", "h", "e", " ", "d", "e", "v",
      " ", "p", "o", "s", "i", "t", "i", "o", "n">>
p_role ==
    <<" ", "a", "b", "o", "u", "t", " ", "a", " ", "d", "e", "v",
      " ", "r", "o", "l", "e">>

Pieces ==
    {p_7, p_12, p_space, p_people, p_PEOPLE, p_comma,
     p_contact, p_reach, p_from, p_position, p_role}

Commands ==
    {Flatten(ps) : ps \in UNION {[1..n -> Pieces] : n \in 0..MaxPieces}}

InitParse ==
    /\ command \in Commands
    /\ params = NoParams
    /\ TrackerIdle
    /\ WebIdle
    /\ VoiceIdle
    /\ OverlapIdle
    /\ PairIdle

\* params = self.parse_command(command)
ParseCommand ==
    /\ params = NoParams
    /\ params' = parse_command(command)
    /\ UNCHANGED <<command, trackerVars, webVars, voiceVars, overlapVars, pairVars>>

NextParse == ParseCommand

SpecParse == InitParse /\ [][NextParse]_vars

(***************************************************************************)
(* Properties of parse_command, checked under SpecParse.                   *)
(***************************************************************************)
\* a number starts at i: a digit that no digit precedes
NumberStart(s, i) == s[i] \in Digits /\ (i = 1 \/ s[i - 1] \notin Digits)

\* the last digit of the number that starts at i
NumberEnd(s, i) ==
    CHOOSE j \in i..Len(s) :
        /\ \A k \in i..j : s[k] \in Digits
        /\ j = Len(s) \/ s[j + 1] \notin Digits

\* the number that starts at i is followed, after whitespace, by "people"
BeforePeople(s, i) ==
    /\ NumberStart(s, i)
    /\ \E k \in (NumberEnd(s, i) + 2)..Len(s) :
           /\ \A x \in (NumberEnd(s, i) + 1)..(k - 1) : s[x] \in Whitespace
           /\ LitAt(s, k, w_people)

\* the value of the decimal numeral s[i..j]
RECURSIVE Decimal(_, _, _)
Decimal(s, i, j) ==
    IF i > j
    THEN 0
    ELSE ((CHOOSE d \in 0..9 : DigitChars[d + 1] = s[i]) * 10 ^ (j - i))
            + Decimal(s, i + 1, j)

\* the starts of the numbers of s that are followed by "people"
PeopleCounts(s) == {i \in DOMAIN s : BeforePeople(s, i)}

\* neither "reach out to N" nor "contact N" occurs in s
NoContactCount(s) ==
    \A i \in DOMAIN s :
        \A w \in {w_reach, w_contact} :
            ~(/\ LitAt(s, i, w)
              /\ i + Len(w) <= Len(s)
              /\ s[i + Len(w)] \in Digits)

\* C1: when the text, case ignored, holds a number followed by whitespace and
\* "people", num_people is the value of the first such number; when the text
\* holds none of the three count patterns, num_people is 10
C1_ParsedCount ==
    params # NoParams =>
        \A s \in {lower(command)} :
            \A counts \in {PeopleCounts(s)} :
                /\ \A i \in counts :
                       (\A k \in counts : i <= k)
                           => params.num_people = Decimal(s, i, NumberEnd(s, i))
                /\ (counts = {} /\ NoContactCount(s)) => params.num_people = 10

C1_Witness ==
    /\ params # NoParams
    /\ command = p_contact \o p_12 \o p_people
    /\ PeopleCounts(lower(command)) = {11}
    /\ params.num_people = 12

(***************************************************************************)
(* voice_interface.py and the loop of LinkedInVoiceAssistant.run.  The     *)
(* loop is at one of its blocking calls: listen() for a command            *)
(* (AwaitingCommand), listen() for the answer to the confirmation question *)
(* (Confirming), the agent call (Executing), listen() for the answer to    *)
(* "anything else?" (AskingContinue); Terminated is the loop left by break.*)
(***************************************************************************)
\* listen() returns the transcribed text, or None on a timeout, on speech that
\* is not understood and on a recognition service error
Heard(text) == [some |-> TRUE, v |-> text]

\* the truth value of an Optional[str]: None and "" are false
truthy(h) == h.some /\ h.v # << >>

\* word in text
Contains(s, w) == \E i \in 1..(Len(s) + 1) : LitAt(s, i, w)

\* any(word in text for word in words)
any_word_in(words, s) == \E w \in words : Contains(s, w)

exit_words == {<<"e", "x", "i", "t">>, <<"q", "u", "i", "t">>, <<"s", "t", "o", "p">>, <<"g", "o", "o", "d", "b", "y", "e">>}

\* the yes words with "no" among them
yes_or_no_words ==
    {<<"y", "e", "s">>, <<"y", "e", "a", "h">>, <<"y", "e", "p">>, <<"s", "u", "r", "e">>,
     <<"o", "k", "a", "y">>, <<"o", "k">>, <<"n", "o">>}

yes_words ==
    {<<"y", "e", "s">>, <<"y", "e", "a", "h">>, <<"y", "e", "p">>, <<"s", "u", "r", "e">>, <<"o", "k", "a", "y">>, <<"o", "k">>}

\* confirm() that takes silence for a yes
confirm_silence_yes(h) ==
    IF truthy(h) THEN any_word_in(yes_words, lower(h.v)) ELSE TRUE

\* VoiceInterface.confirm(question), h being what listen() returned
confirm(h) ==
    IF truthy(h) THEN any_word_in(yes_words, lower(h.v)) ELSE FALSE

\* a test that takes only None for missing
missing_none_only(field) == ~field.some

\* not params['company'] or not params['position']
missing(field) == ~field.some \/ field.v = << >>

\* the sample_results of LinkedInVoiceAssistant.execute_linkedin_outreach
voice_records(company, position, n) ==
    [i \in 1..n |->
        [company |-> company, position |-> position,
         name |-> "Contact " \o ToString(i),
         contact_title |-> "Professional", status |-> "Connection Sent",
         message_sent |-> "Yes", response_status |-> "Pending",
         notes |-> "Automated outreach via voice command"]]

\* what LinkedInAutomation.reach_out_simple may do: TaskerAgent(...) raises,
\* agent.execute raises, or the call returns
VoiceOutcomes == {"setup_raises", "execute_raises", "returns"}

\* what the assistant speaks
SayPrompt == "What would you like me to do?"
SayGoodbye == "Goodbye! Have a great day!"
SayNeedMore == "I need more information."
SayConfirmation == "I will reach out to ... Is this correct?"
SayTryAgain == "Let's try again."
SayStarting == "Starting LinkedIn automation."
SaySuccess == "Successfully sent ... connection requests"
SayErrorAsSuccess(text) == "Successfully sent ... connection requests"
SayError(text) == "An error occurred during automation: " \o text
SayAnythingElse == "Would you like to do anything else?"
SayAlright == "Alright! Have a great day!"

\* the command texts and the answers the microphone may deliver
c_where == <<" ", "a", "t", " ", "h", "p", " ", "f", "o", "r", " ", "a", " ", "q", "a", " ", "r", "o", "l", "e">>
c_three == <<"3">> \o p_people \o c_where
c_ten == SubSeq(c_where, 2, Len(c_where))
c_zero == <<"0">> \o p_people \o c_where
c_many == <<"5", "1">> \o p_people \o c_where
c_nowhere == p_contact \o p_7
c_blank == <<"a", "t", " ", " ", " ", "f", "o", "r", " ", "a", " ", "q", "a", " ", "r", "o", "l", "e">>
c_stop == <<"P", "l", "e", "a", "s", "e", " ", "S", "T", "O", "P">>

Transcripts ==
    {NoHeard, Heard(<< >>), Heard(c_three), Heard(c_ten), Heard(c_zero),
     Heard(c_many), Heard(c_nowhere), Heard(c_blank), Heard(c_stop)}

Answers == {NoHeard, Heard(<<"Y", "e", "s">>), Heard(<<"n", "o">>), Heard(<<"n", "o", "t", " ", "o", "k", "a", "y">>)}

\* parse_command on each text the microphone may deliver, worked out once
Parsed == [h \in {t \in Transcripts : truthy(t)} |-> parse_command(h.v)]

\* LinkedInVoiceAssistant(use_google_sheets) followed by the first two
\* sentences of run(): the tracker is the CSV one, or the spreadsheet one when
\* authenticate() succeeded, whose worksheet may have failed to open
InitVoice ==
    /\ dest0 \in DestKinds
    /\ tracker \in {"local", "sheet"}
    /\ client = (tracker = "sheet")
    /\ worksheet \in {w \in BOOLEAN : w => tracker = "sheet"}
    /\ dest = IF tracker = "local" THEN local_init(DestOf(dest0))
              ELSE IF worksheet THEN sheet_open(DestOf(dest0))
              ELSE DestOf(dest0)
    /\ now = 0
    /\ last = NoCall
    /\ appended = << >>
    /\ clean = TRUE
    /\ WebIdle
    /\ ParseIdle
    /\ OverlapIdle
    /\ PairIdle
    /\ state = "AwaitingCommand"
    /\ heard = NoHeard
    /\ said = <<"LinkedIn Voice Assistant is ready!", SayPrompt>>
    /\ cycles = 0

\* run(): from the return of get_command to the next listen() or to break
HearCommand(h) ==
    /\ state = "AwaitingCommand"
    /\ heard' = h
    /\ events' = << >>
    /\ IF ~truthy(h)
       THEN /\ said' = <<SayPrompt>>
            /\ UNCHANGED <<state, cycles, command, params>>
       ELSE IF any_word_in(exit_words, lower(h.v))
       THEN /\ said' = <<SayGoodbye>>
            /\ state' = "Terminated"
            /\ UNCHANGED <<cycles, command, params>>
       ELSE \E parsed \in {Parsed[h]} :
                /\ command' = h.v
                /\ params' = parsed
                /\ IF missing(parsed.company) \/ missing(parsed.position)
                   THEN /\ said' = <<SayNeedMore, SayPrompt>>
                        /\ UNCHANGED <<state, cycles>>
                   ELSE /\ cycles < MaxCycles
                        /\ said' = <<SayConfirmation>>
                        /\ state' = "Confirming"
                        /\ cycles' = cycles + 1
    /\ UNCHANGED <<trackerVars, elevenlabs_client, oagi_key, request, response,
                   result, served, overlapVars, pairVars>>

\* execute_linkedin_outreach(params): from the answer to the confirmation
\* question to the agent call, or to the return when the answer is not a yes
HearConfirmation(h) ==
    /\ state = "Confirming"
    /\ heard' = h
    /\ IF confirm(h)
       THEN /\ said' = <<SayStarting>>
            /\ state' = "Executing"
       ELSE /\ said' = <<SayTryAgain, SayAnythingElse>>
            /\ state' = "AskingContinue"
    /\ UNCHANGED <<trackerVars, webVars, parseVars, cycles, overlapVars, pairVars>>

\* execute_linkedin_outreach(params): the try block and what run() does after
\* the call returns, up to the listen() of the continue question
Automation(outcome, fails) ==
    /\ state = "Executing"
    /\ IF outcome = "returns"
       THEN \E w \in {add_multiple_records(tracker, worksheet, dest,
                          voice_records(params.company.v, params.position.v,
                                        params.num_people),
                          now, fails)} :
                /\ dest' = w.dest
                /\ last' = [op |-> "add_multiple_records",
                            records |-> voice_records(params.company.v,
                                            params.position.v, params.num_people),
                            attempted |-> w.attempted, failed |-> w.failed,
                            count |-> w.count, ret |-> w.ret]
                /\ events' = <<"setup", "set_task", "agent_execute", "tracker_write">>
                /\ said' = <<SaySuccess, SayAnythingElse>>
       ELSE /\ events' = RunEvents(outcome)
            /\ said' = <<SayError(ErrorText(outcome)), SayAnythingElse>>
            /\ UNCHANGED <<dest, last>>
    /\ state' = "AskingContinue"
    /\ UNCHANGED <<tracker, client, worksheet, dest0, now, appended, clean,
                   elevenlabs_client, oagi_key, request, response, result, served,
                   parseVars, heard, cycles, overlapVars, pairVars>>

\* run(): from the answer to "anything else?" to the next get_command or to break
HearContinue(h) ==
    /\ state = "AskingContinue"
    /\ heard' = h
    /\ IF confirm(h)
       THEN /\ said' = <<SayPrompt>>
            /\ state' = "AwaitingCommand"
       ELSE /\ said' = <<SayAlright>>
            /\ state' = "Terminated"
    /\ UNCHANGED <<trackerVars, webVars, parseVars, cycles, overlapVars, pairVars>>

NextVoice ==
    \/ \E h \in Transcripts : HearCommand(h)
    \/ \E h \in Answers : HearConfirmation(h)
    \/ \E outcome \in VoiceOutcomes, fails \in FailSets : Automation(outcome, fails)
    \/ \E h \in Answers : HearContinue(h)

SpecVoice == InitVoice /\ [][NextVoice]_vars

(***************************************************************************)
(* Properties of the voice loop, checked under SpecVoice.                  *)
(***************************************************************************)
\* the answer holds one of the yes words, case ignored
Affirmative(h) ==
    /\ h.some
    /\ \E w \in {<<"y", "e", "s">>, <<"y", "e", "a", "h">>, <<"y", "e", "p">>,
                <<"s", "u", "r", "e">>, <<"o", "k", "a", "y">>, <<"o", "k">>} :
           Contains(lower(h.v), w)

\* the command holds one of the exit words, case ignored
ExitCommand(h) ==
    /\ h.some
    /\ \E w \in {<<"e", "x", "i", "t">>, <<"q", "u", "i", "t">>,
                <<"s", "t", "o", "p">>, <<"g", "o", "o", "d", "b", "y", "e">>} :
           Contains(lower(h.v), w)

Terminates == state # "Terminated" /\ state' = "Terminated"

\* C11 as stated: the loop ends only from AwaitingCommand on a command with an
\* exit keyword or from AskingContinue on a negative answer, and never on a
\* listen() that returned no transcription
C11_Original ==
    [][Terminates =>
         /\ \/ state = "AwaitingCommand" /\ ExitCommand(heard')
            \/ state = "AskingContinue" /\ ~Affirmative(heard')
         /\ heard'.some]_vars

\* C11: from AwaitingCommand the loop ends exactly on a command that holds an
\* exit keyword; from AskingContinue it ends exactly on an answer that is not
\* affirmative, a listen() that returned nothing included; it ends from no
\* other state
C11_Termination ==
    [][/\ Terminates => state \in {"AwaitingCommand", "AskingContinue"}
       /\ (state = "AwaitingCommand" /\ heard' # heard)
              => (state' = "Terminated" <=> ExitCommand(heard'))
       /\ (state = "AskingContinue" /\ state' # state)
              => (state' = "Terminated" <=> ~Affirmative(heard'))
       /\ (state = "Confirming" /\ state' # state) => state' # "Terminated"]_vars

C11_Witness ==
    /\ state = "Terminated"
    /\ heard = NoHeard
    /\ said = <<SayAlright>>

\* the command heard in this step is parsed and lacks a company or a position
MissingFields ==
    /\ state = "AwaitingCommand"
    /\ heard' # heard \/ params' # params
    /\ truthy(heard')
    /\ ~ExitCommand(heard')
    /\ \E f \in {Parsed[heard'].company, Parsed[heard'].position} :
           f \in {None, Some(<< >>)}

\* the agent call of this step raised
AutomationRaised == state = "Executing" /\ "tracker_write" \notin Range(events')

\* C12 as stated: after a command without company or position, and after an
\* exception of the automation run, the error is spoken and the loop awaits
\* the next command
C12_Original ==
    [][(MissingFields \/ AutomationRaised) => state' = "AwaitingCommand"]_vars

\* C12: after a command without company or position the loop asks for more
\* information and awaits the next command; after an exception of the
\* automation run it speaks the error text and then asks the continue question
\* (AskingContinue), as it does after a successful run; the tracker is left as
\* it was in both cases
C12_FailureHandling ==
    [][/\ MissingFields =>
            /\ state' = "AwaitingCommand"
            /\ said' = <<"I need more information.", "What would you like me to do?">>
            /\ dest' = dest
       /\ AutomationRaised =>
            /\ state' = "AskingContinue"
            /\ said' \in {<<"An error occurred during automation: " \o text,
                            "Would you like to do anything else?">> :
                          text \in {"OAGI API key must be provided",
                                    "agent request failed"}}
            /\ dest' = dest]_vars

\* the loop ended on the continue question asked after a failed run
C12_Witness ==
    /\ state = "Terminated"
    /\ said = <<SayAlright>>
    /\ events = RunEvents("execute_raises")

C18_Ordering ==
    [][/\ (state' = "Executing" /\ state # "Executing")
              => (state = "Confirming" /\ Affirmative(heard'))
       /\ (state = "Confirming" /\ state' # state /\ ~Affirmative(heard'))
              => /\ state' = "AskingContinue"
                 /\ "agent_execute" \notin Range(events')
                 /\ dest' = dest
       /\ dest' # dest
              => /\ state = "Executing"
                 /\ events' = <<"setup", "set_task", "agent_execute", "tracker_write">>
       /\ "agent_execute" \in Range(events') /\ events' # events
              => state = "Executing"]_vars

C18_Witness ==
    /\ state = "AskingContinue"
    /\ heard = Heard(<<"n", "o">>)
    /\ said = <<SayTryAgain, SayAnythingElse>>
    /\ events = << >>
    /\ cycles = 1

(***************************************************************************)
(* SpecRuns: the outreach runs of either program, the web application or   *)
(* the voice assistant.  A behaviour is one of SpecWeb or one of SpecVoice.*)
(***************************************************************************)
InitRuns == InitWeb \/ InitVoice

NextRuns ==
    \/ state = "off" /\ NextWeb
    \/ state # "off" /\ NextVoice

SpecRuns == InitRuns /\ [][NextRuns]_vars

\* the count the dispatcher of the last /api/execute request was given
SentCount == Get(request.body.data, "num_people", JInt(DefaultPeople)).v

\* C13: a run that reaches the dispatcher has a count in 1..50, from the HTTP
\* endpoint and from the voice loop, and the batch it writes has 1..50 records
C13_CountBound ==
    /\ (request.kind = "execute" /\ Dispatched) => SentCount \in 1..50
    /\ state \in {"Confirming", "Executing"} => params.num_people \in 1..50
    /\ "tracker_write" \in Range(events) => Len(last.records) \in 1..50

\* the agent call of the last run returned: something follows it in the run
AgentReturned ==
    \E i \in 1..(Len(events) - 1) :
        events[i] = "agent_execute" /\ events[i + 1] \in {"export", "tracker_write"}

\* the company, position and count of the last run
RunOf ==
    IF state = "off"
    THEN [company |-> Sent("company"), position |-> Sent("position"),
          n |-> SentCount]
    ELSE [company |-> params.company.v, position |-> params.position.v,
          n |-> params.num_people]

\* C16: when the agent call of a run has returned, one batch went to the
\* tracker: n records named Contact 1 .. Contact n in that order, each with the
\* company and position of the run
C16_RecordSynthesis ==
    AgentReturned =>
        /\ Cardinality({i \in DOMAIN events : events[i] = "tracker_write"}) = 1
        /\ last.op = "add_multiple_records"
        /\ Len(last.records) = RunOf.n
        /\ \A i \in DOMAIN last.records :
               /\ last.records[i].name = "Contact " \o ToString(i)
               /\ last.records[i].company = RunOf.company
               /\ last.records[i].position = RunOf.position

\* the agent call of the last run raised: nothing follows it in the run
AgentFailed ==
    \E i \in DOMAIN events :
        /\ events[i] = "agent_execute"
        /\ \A k \in (i + 1)..Len(events) : events[k] = "loop_close"

\* C17: a run calls the agent's execute at most once; when the call raises,
\* the run ends with the error text in its result (and in the HTTP answer) or,
\* in the voice loop, spoken to the user
C17_NoRetry ==
    /\ Cardinality({i \in DOMAIN events : events[i] = "agent_execute"}) <= 1
    /\ AgentFailed =>
           IF state = "off"
           THEN /\ result.kind = "dict"
                /\ result.success = FALSE
                /\ result.error = "agent request failed"
                /\ response.status = 500
                /\ response.error = "agent request failed"
           ELSE /\ state \in {"AskingContinue", "AwaitingCommand", "Terminated"}
                /\ state = "AskingContinue" =>
                       said[1] = "An error occurred during automation: agent request failed"

C17_Witness ==
    /\ state = "AskingContinue"
    /\ events = <<"setup", "set_task", "agent_execute">>
    /\ said[1] = "An error occurred during automation: agent request failed"

(***************************************************************************)
(* SpecOverlap: two /api/execute requests that pass validation, each       *)
(* handled by its own thread of the Flask development server, on the one   *)
(* LocalSpreadsheetTracker of the module.  A thread is preempted between   *)
(* the calls it makes: constructing the agent, awaiting it, opening the    *)
(* file and writing the row.                                               *)
(***************************************************************************)
\* the company of each of the two requests
OverlapCompanies == <<"hp", "ibm">>

Handlers == DOMAIN OverlapCompanies

\* a request the server has received and validated
received(company, n) ==
    [pc |-> "received", company |-> company, n |-> n, agent |-> 0,
     outcome |-> "none", i |-> 0, off |-> 0, oks |-> << >>, status |-> 0]

\* the records the thread of a request builds
thread_records(th) == outreach_records(th.company, "dev", th.n, "hi")

\* a write that goes to the offset the file had when it was opened
os_write_at(d, off, row) ==
    [exists |-> TRUE,
     rows |-> IF off < Len(d.rows) THEN [d.rows EXCEPT ![off + 1] = row]
              ELSE Append(d.rows, row)]

\* writerow on a file opened with mode 'a', flushed on leaving the with block:
\* the system puts the row at the end the file has when the row is written,
\* whatever the end was at open
os_append(d, off, row) == csv_append(d, row)

InitOverlap ==
    /\ tracker = "local"
    /\ client = FALSE
    /\ worksheet = FALSE
    /\ dest0 \in DestKinds
    /\ dest = local_init(DestOf(dest0))
    /\ now \in Clock
    /\ last = [op |-> "LocalSpreadsheetTracker"]
    /\ appended = << >>
    /\ clean = TRUE
    /\ elevenlabs_client = FALSE
    /\ oagi_key \in BOOLEAN
    /\ request = NoRequest
    /\ response = NoResponse
    /\ result = NoResult
    /\ events = << >>
    /\ served = 0
    /\ ParseIdle
    /\ VoiceIdle
    /\ threads \in {<<received(OverlapCompanies[1], n1), received(OverlapCompanies[2], n2)>> :
                       n1 \in 1..MaxBatch, n2 \in 1..MaxBatch}
    /\ agents = 0
    /\ PairIdle

overlapFrame ==
    <<tracker, client, worksheet, dest0, now, last, appended, clean,
      elevenlabs_client, oagi_key, request, response, result, events, served,
      parseVars, voiceVars, pairVars>>

\* TaskerAgent(...), the handlers and set_task: the agent of this request
Setup(t, outcome) ==
    /\ threads[t].pc = "received"
    /\ outcome \in AgentOutcomes(oagi_key)
    /\ IF outcome = "setup_raises"
       THEN /\ threads' = [threads EXCEPT ![t].pc = "answered",
                                          ![t].outcome = outcome,
                                          ![t].status = 500]
            /\ agents' = agents
       ELSE /\ threads' = [threads EXCEPT ![t].pc = "executing",
                                          ![t].outcome = outcome,
                                          ![t].agent = agents + 1]
            /\ agents' = agents + 1
    /\ UNCHANGED <<dest, overlapFrame>>

\* await tasker.execute(...) and the export of the history
AgentEnds(t) ==
    /\ threads[t].pc = "executing"
    /\ IF threads[t].outcome \in {"execute_raises", "export_raises"}
       THEN threads' = [threads EXCEPT ![t].pc = "answered", ![t].status = 500]
       ELSE threads' = [threads EXCEPT ![t].pc = "tracking", ![t].i = 1]
    /\ UNCHANGED <<dest, agents, overlapFrame>>

\* add_outreach_record of the next record: open(self.filename, 'a')
OpenFile(t) ==
    /\ threads[t].pc = "tracking"
    /\ threads' = [threads EXCEPT ![t].pc = "opened", ![t].off = Len(dest.rows)]
    /\ UNCHANGED <<dest, agents, overlapFrame>>

\* writer.writerow(row_data) and the end of the with block; after the last
\* record the dispatcher returns and the handler answers
WriteRow(t, ok) ==
    /\ threads[t].pc = "opened"
    /\ LET th == threads[t]
           row == row_data(thread_records(th)[th.i], now)
           done == th.i = th.n
       IN  /\ dest' = IF ok THEN os_append(dest, th.off, row) ELSE dest
           /\ threads' =
                [threads EXCEPT
                    ![t].oks = IF ok THEN Append(th.oks, th.i) ELSE th.oks,
                    ![t].i = th.i + 1,
                    ![t].pc = IF done THEN "answered" ELSE "tracking",
                    ![t].status = IF ~done THEN 0
                                  ELSE IF th.outcome = "returns_true" THEN 200
                                  ELSE 500]
    /\ UNCHANGED <<agents, overlapFrame>>

NextOverlap ==
    \/ \E t \in Handlers, outcome \in AgentOutcomes(TRUE) : Setup(t, outcome)
    \/ \E t \in Handlers : AgentEnds(t)
    \/ \E t \in Handlers : OpenFile(t)
    \/ \E t \in Handlers, ok \in BOOLEAN : WriteRow(t, ok)

SpecOverlap == InitOverlap /\ [][NextOverlap]_vars

\* both requests have been answered
AllAnswered == \A t \in Handlers : threads[t].pc = "answered"

\* the rows the file held when the server started
StartRows == local_init(DestOf(dest0)).rows

\* the rows the file holds after those
NewRows == SubSeq(dest.rows, Len(StartRows) + 1, Len(dest.rows))

\* the rows of a request in the file, in file order
RowsOf(t) == SelectSeq(NewRows, LAMBDA r : r[2] = threads[t].company)

\* C15: each of two overlapping requests has an agent of its own, and once both
\* are answered the file holds, after the rows it had, exactly the rows the two
\* requests appended: one whole row per successful append, N of them for a
\* request whose N appends all succeeded, those of each request in the order
\* Contact 1 .. Contact N, those of the two requests possibly interleaved
C15_OverlapRows ==
    /\ \A t, u \in Handlers :
           (t # u /\ threads[t].agent # 0) => threads[t].agent # threads[u].agent
    /\ \A t \in Handlers :
           threads[t].pc \in {"executing", "tracking", "opened"} => threads[t].agent # 0
    /\ AllAnswered =>
           /\ Len(dest.rows) >= Len(StartRows)
           /\ SubSeq(dest.rows, 1, Len(StartRows)) = StartRows
           /\ Len(NewRows) = Len(threads[1].oks) + Len(threads[2].oks)
           /\ \A t \in Handlers :
                  /\ RowsOf(t) = [k \in DOMAIN threads[t].oks |->
                                     row_data(thread_records(threads[t])[threads[t].oks[k]], now)]
                  /\ threads[t].status = 200 =>
                         \A k \in DOMAIN threads[t].oks :
                             RowsOf(t)[k][4] = "Contact " \o ToString(threads[t].oks[k])
                  /\ threads[t].oks = [k \in 1..threads[t].n |-> k] =>
                         Len(RowsOf(t)) = threads[t].n

\* both requests answered 200, no append failed, and the rows are interleaved
C15_Witness ==
    /\ AllAnswered
    /\ \A t \in Handlers :
           threads[t].status = 200 /\ Len(threads[t].oks) = threads[t].n
    /\ Len(NewRows) = 3
    /\ NewRows[1][2] = "hp" /\ NewRows[2][2] = "ibm" /\ NewRows[3][2] = "hp"
    /\ NewRows[1][4] = "Contact 1" /\ NewRows[3][4] = "Contact 2"

(***************************************************************************)
(* Frame properties of the tracker and of /api/execute                     *)
(***************************************************************************)
\* every row of a is a row of b at the same position
IsPrefix(a, b) == Len(a) <= Len(b) /\ SubSeq(b, 1, Len(a)) = a

\* C19: a call of add_outreach_record or add_multiple_records, whatever it
\* returns, leaves every row the destination held, the header included, at its
\* position with its content, the new rows coming after them; and a step of the
\* tracker that changes or moves an existing row is an update_response_status
\* (or the removal of the destination from outside the program)
C19_AppendOnly ==
    [][/\ last'.op \in {"add_outreach_record", "add_multiple_records"} =>
              IsPrefix(dest.rows, dest'.rows)
       /\ ~IsPrefix(dest.rows, dest'.rows) =>
              last'.op \in {"update_response_status", "remove"}]_vars

\* a batch of two records, one of the appends failing, on a sheet that held
\* the header
C19_Witness ==
    /\ tracker = "sheet"
    /\ last.op = "add_multiple_records"
    /\ Len(last.records) = 2
    /\ last.count = 1
    /\ ~last.ret
    /\ Len(dest.rows) = 2
    /\ dest.rows[1] = headers
    /\ dest.rows[2][4] \in {last.records[1].name, last.records[2].name}

\* C20: a request that /api/execute rejects with 400 creates no event loop and
\* no agent, runs and exports nothing, and leaves the tracker's file and the
\* record of the tracker's last call as they were
C20_ValidationFirst ==
    [][(served' = served + 1 /\ request'.kind = "execute" /\ response'.status = 400) =>
          /\ events' = << >>
          /\ result' = NoResult
          /\ dest' = dest
          /\ last' = last
          /\ appended' = appended]_vars

\* a request with a count above the bound, rejected while the agent is usable
\* and the file holds records
C20_Witness ==
    /\ request.kind = "execute"
    /\ response.status = 400
    /\ ExecuteObject
    /\ SentNum.t = "int" /\ SentNum.v > MaxPeople
    /\ oagi_key
    /\ dest = DestOf("used")
    /\ events = << >>

(***************************************************************************)
(* Failed runs                                                             *)
(***************************************************************************)
\* what a run did, the event loop of the HTTP handler left out
RunSteps(ev) == SelectSeq(ev, LAMBDA e : e \notin {"new_event_loop", "loop_close"})

\* the run raised while setting up the agent or while awaiting it
SetupOrCallRaised(ev) ==
    RunSteps(ev) \in {<<"setup">>, <<"setup", "set_task", "agent_execute">>}

\* C22: a run, started by /api/execute or by the voice loop, in which the agent
\* setup or the agent call raises appends no record: the tracker's destination
\* after the run is what it was before the run
C22_FailedRunWritesNothing ==
    [][(/\ \/ state = "off" /\ served' = served + 1 /\ request'.kind = "execute"
           \/ state = "Executing" /\ state' # "Executing"
        /\ SetupOrCallRaised(events')) =>
          /\ dest' = dest
          /\ last' = last]_vars

\* an HTTP run whose agent call raised, on a file that holds records
C22_Witness ==
    /\ request.kind = "execute"
    /\ response.status = 500
    /\ RunSteps(events) = <<"setup", "set_task", "agent_execute">>
    /\ oagi_key
    /\ dest = DestOf("used")

(***************************************************************************)
(* SpecPair: a LocalSpreadsheetTracker and a SpreadsheetTracker, each on   *)
(* its own destination, both empty at the start, constructed the way       *)
(* LinkedInVoiceAssistant.__init__ constructs them and then given the same *)
(* calls with the same arguments at the same time.                         *)
(***************************************************************************)
\* an empty destination: no file or spreadsheet, or one without any row
EmptyKinds == {"missing", "empty"}

\* the public methods of LocalSpreadsheetTracker
local_methods == {"add_outreach_record", "add_multiple_records"}

\* tracker.update_response_status(...) on a LocalSpreadsheetTracker: the class
\* has no attribute of that name, the call raises AttributeError
local_update_response_status(d, row, status, notes) ==
    IF "update_response_status" \in local_methods
    THEN sheet_update_response_status(d, row, status, notes, "none")
    ELSE [dest |-> d, ret |-> "AttributeError"]

\* how a returned bool reads
repr(ret) == IF ret THEN "True" ELSE "False"

InitPair ==
    /\ tracker = "none"
    /\ client = FALSE
    /\ worksheet = FALSE
    /\ dest = NoDest
    /\ dest0 \in EmptyKinds
    /\ now = 0
    /\ last = NoCall
    /\ appended = << >>
    /\ clean = FALSE
    /\ WebIdle
    /\ ParseIdle
    /\ VoiceIdle
    /\ OverlapIdle
    /\ local_side = [made |-> FALSE, dest |-> DestOf(dest0), ret |-> "none"]
    /\ sheet_side = [made |-> FALSE, ws |-> FALSE, dest |-> DestOf(dest0), ret |-> "none"]

pairFrame == <<trackerVars, webVars, parseVars, voiceVars, overlapVars>>

\* LocalSpreadsheetTracker() on one side; SpreadsheetTracker(), authenticate()
\* returning True and create_or_open_spreadsheet() on the other
PairConstruct ==
    /\ ~local_side.made
    /\ local_side' = [made |-> TRUE, dest |-> local_init(local_side.dest),
                      ret |-> "constructed"]
    /\ sheet_side' = [made |-> TRUE, ws |-> TRUE, dest |-> sheet_open(sheet_side.dest),
                      ret |-> "constructed"]
    /\ UNCHANGED pairFrame

\* tracker.add_outreach_record(record) on both
PairAddOutreachRecord(record, ok) ==
    /\ local_side.made
    /\ Len(local_side.dest.rows) < MaxRows
    /\ Len(sheet_side.dest.rows) < MaxRows
    /\ \E l \in {local_add_outreach_record(local_side.dest, record, now, ok)},
          g \in {sheet_add_outreach_record(sheet_side.ws, sheet_side.dest, record, now, ok)} :
           /\ local_side' = [local_side EXCEPT !.dest = l.dest, !.ret = repr(l.ret)]
           /\ sheet_side' = [sheet_side EXCEPT !.dest = g.dest, !.ret = repr(g.ret)]
    /\ UNCHANGED pairFrame

\* tracker.add_multiple_records(records) on both
PairAddMultipleRecords(records, fails) ==
    /\ local_side.made
    /\ Len(local_side.dest.rows) + Len(records) <= MaxRows
    /\ Len(sheet_side.dest.rows) + Len(records) <= MaxRows
    /\ \E l \in {add_multiple_records("local", FALSE, local_side.dest, records, now, fails)},
          g \in {add_multiple_records("sheet", sheet_side.ws, sheet_side.dest, records,
                                      now, fails)} :
           /\ local_side' = [local_side EXCEPT !.dest = l.dest, !.ret = repr(l.ret)]
           /\ sheet_side' = [sheet_side EXCEPT !.dest = g.dest, !.ret = repr(g.ret)]
    /\ UNCHANGED pairFrame

\* tracker.update_response_status(row, status, notes) on both
PairUpdateResponseStatus(row, status, notes) ==
    /\ local_side.made
    /\ \E l \in {local_update_response_status(local_side.dest, row, status, notes)},
          g \in {IF ~sheet_side.ws THEN [dest |-> sheet_side.dest, ret |-> FALSE]
                 ELSE sheet_update_response_status(sheet_side.dest, row, status,
                                                   notes, "none")} :
           /\ local_side' = [local_side EXCEPT !.dest = l.dest, !.ret = l.ret]
           /\ sheet_side' = [sheet_side EXCEPT !.dest = g.dest, !.ret = repr(g.ret)]
    /\ UNCHANGED pairFrame

NextPair ==
    \/ PairConstruct
    \/ \E record \in Records, ok \in BOOLEAN : PairAddOutreachRecord(record, ok)
    \/ \E records \in Batches :
         \E fails \in SUBSET (1..Len(records)) : PairAddMultipleRecords(records, fails)
    \/ \E row \in 1..MaxRows, status \in Statuses, notes \in NotesValues :
         PairUpdateResponseStatus(row, status, notes)

SpecPair == InitPair /\ [][NextPair]_vars

\* C21: started on empty destinations and given the same calls, the two
\* trackers hold the same rows and have returned the same result
C21_Interchangeable ==
    (local_side.made /\ sheet_side.made) =>
        /\ local_side.dest.rows = sheet_side.dest.rows
        /\ local_side.ret = sheet_side.ret

====
